---- MODULE Spec2Model ----
(***************************************************************************)
(* Model of the mahjong club scoreboard: the persisted tables (Week,       *)
(* Player, Transaction, Pool) and the request handlers of views.py that    *)
(* read and write them through the methods of models.py.                   *)
(*                                                                         *)
(* Money is kept in hundredths (DecimalField(decimal_places=2)), so 300    *)
(* points are 300 * Cents.  A date is represented by its year, the only    *)
(* component the code reads (today.year).  Every ORM write is committed    *)
(* as it is made: no handler opens transaction.atomic().                   *)
(*                                                                         *)
(* Spec has the requests urls.py routes.  views.add_session_htmx and       *)
(* views.add_transaction_htmx have no path in urls.py; SpecViews adds them *)
(* as calls of the view functions.  admin.py only registers the models     *)
(* with the admin site, which urls.py does not mount: the admin's forms    *)
(* are not requests of this application and are not modelled.              *)
(*                                                                         *)
(* SpecConc serves two requests at the same time, one ORM statement per    *)
(* step: each view of views.py, and Week.get_current_week and              *)
(* Week.start_new_week called on their own.                                *)
(***************************************************************************)
EXTENDS Integers, Sequences, FiniteSets, TLC

\* ---------------------------------------------------------------- bounds
MaxPlayers == 2
MaxTxns == 2
MaxWeeks == 3
MaxYear == 2
NProcs == 2
MaxLedger == 3

\* ------------------------------------------------- representation of NULL
NullDate == 0
NoPlayer == 0
NoWeekday == "NULL"
Cents == 100

\* ------------------------------------------------------------ input sets
FirstYear == 1
PlayerNames == 1..MaxPlayers
InputWeekdays == {"Monday", "Tuesday"}
SessionValues == {-500 * Cents, -200 * Cents, 200 * Cents, 500 * Cents}
PayValues == {-300 * Cents, 300 * Cents}
FormTypes == {"SESSION", "PAYIN", "PAYOUT"}
FormWeekdays == {"Monday", NoWeekday}
FormValues == {-200 * Cents, 200 * Cents}

WEEKDAYS ==
  {"Monday", "Tuesday", "Wednesday", "Thursday", "Friday", "Saturday", "Sunday"}

VARIABLES weeks, players, transactions, pool, today, last, pre, procs

vars == <<weeks, players, transactions, pool, today, last, pre, procs>>

\* Requests in flight at the same time (used by SpecConc only): for each,
\* the command, the place it has reached, and its local current_week.
Procs == 1..NProcs

Idle ==
  [cmd |-> "none", pc |-> "done", current_week |-> 0, looked |-> FALSE,
   found |-> FALSE, seen |-> 0, mid |-> FALSE]

\* The persisted tables as one value, so that the methods of models.py can
\* be written as operators from a database to a database.
DB ==
  [weeks |-> weeks, players |-> players, transactions |-> transactions,
   pool |-> pool]

EmptyDB ==
  [weeks |-> <<>>, players |-> <<>>, transactions |-> <<>>,
   pool |-> [exists |-> FALSE, balance |-> 0]]

\* ------------------------------------------------------------- querysets
RECURSIVE SumValues(_)
SumValues(s) == IF s = <<>> THEN 0 ELSE Head(s).value + SumValues(Tail(s))

\* Week.Meta.ordering = ['-year', '-week_number']
WeekBefore(ws, i, j) ==
  \/ ws[i].year > ws[j].year
  \/ ws[i].year = ws[j].year /\ ws[i].week_number > ws[j].week_number

CurrentWeeks(ws) == {i \in 1..Len(ws) : ws[i].is_current}

FirstWeek(ws, S) == CHOOSE i \in S : \A j \in S \ {i} : WeekBefore(ws, i, j)

\* Player.Meta.ordering = ['name']: the ids of the players, by name.
RECURSIVE ByName(_, _)
ByName(ps, S) ==
  IF S = {} THEN <<>>
  ELSE LET m == CHOOSE i \in S : \A j \in S : ps[i].name <= ps[j].name
       IN <<m>> \o ByName(ps, S \ {m})

PlayersAll(db) == ByName(db.players, 1..Len(db.players))

Txn(p, w, ty, wd, v, text, arg) ==
  [player |-> p, week |-> w, transaction_type |-> ty, weekday |-> wd,
   value |-> v, description |-> [text |-> text, arg |-> arg],
   is_reverted |-> FALSE]

Transaction_create(db, t) ==
  [db EXCEPT !.transactions = Append(@, t)]

\* Variant: update_or_create on (week_number, year) instead of create: a
\* taken pair is made current again instead of raising.
Week_create_Upsert(db, wn, yr, now) ==
  IF \E i \in 1..Len(db.weeks) :
       db.weeks[i].week_number = wn /\ db.weeks[i].year = yr
  THEN LET w == CHOOSE i \in 1..Len(db.weeks) :
                  db.weeks[i].week_number = wn /\ db.weeks[i].year = yr
       IN [db |-> [db EXCEPT !.weeks[w].is_current = TRUE],
           week |-> w, raised |-> FALSE]
  ELSE [db |-> [db EXCEPT !.weeks = Append(@,
                  [week_number |-> wn, year |-> yr, start_date |-> now,
                   end_date |-> NullDate, is_current |-> TRUE])],
        week |-> Len(db.weeks) + 1, raised |-> FALSE]

\* Week.objects.create: unique_together = ['week_number', 'year'] makes the
\* insert raise IntegrityError when the pair is taken.
Week_create(db, wn, yr, now) ==
  IF \E i \in 1..Len(db.weeks) :
       db.weeks[i].week_number = wn /\ db.weeks[i].year = yr
  THEN [db |-> db, week |-> 0, raised |-> TRUE]
  ELSE [db |-> [db EXCEPT !.weeks = Append(@,
                  [week_number |-> wn, year |-> yr, start_date |-> now,
                   end_date |-> NullDate, is_current |-> TRUE])],
        week |-> Len(db.weeks) + 1, raised |-> FALSE]

get_current_week(db, now) ==
  LET cur == CurrentWeeks(db.weeks)
  IN IF cur # {}
     THEN [db |-> db, week |-> FirstWeek(db.weeks, cur), raised |-> FALSE]
     ELSE Week_create(db, 1, now, now)

get_pool(db) ==
  IF db.pool.exists THEN db
  ELSE [db EXCEPT !.pool = [exists |-> TRUE, balance |-> 0]]

\* Sum('value') over player=p, week=w, any transaction type.
PlayerWeekSum(db, p, w) ==
  SumValues(SelectSeq(db.transactions,
                      LAMBDA t : t.player = p /\ t.week = w))

\* Sum('value') over player=p, week=w, transaction_type in types.
PlayerWeekTypeSum(db, p, w, types) ==
  SumValues(SelectSeq(db.transactions,
                      LAMBDA t : /\ t.player = p /\ t.week = w
                                 /\ t.transaction_type \in types))

\* Sum('value') over week=w, transaction_type='SESSION', weekday=d.
DayTotal(db, w, d) ==
  SumValues(SelectSeq(db.transactions,
                      LAMBDA t : /\ t.week = w /\ t.weekday = d
                                 /\ t.transaction_type = "SESSION"))

\* Variant: the week filter of the aggregate is dropped.
get_weekly_total_AnyWeek(db, p, now) ==
  LET g == get_current_week(db, now)
  IN [db |-> g.db, raised |-> g.raised,
      total |-> IF g.raised THEN 0
                ELSE SumValues(SelectSeq(g.db.transactions,
                                         LAMBDA t : t.player = p))]

get_weekly_total(db, p, now) ==
  LET g == get_current_week(db, now)
  IN [db |-> g.db, raised |-> g.raised,
      total |-> IF g.raised THEN 0 ELSE PlayerWeekSum(g.db, p, g.week)]

get_payin_payout_balance(db, p, now) ==
  LET g == get_current_week(db, now)
  IN [db |-> g.db, raised |-> g.raised,
      total |-> IF g.raised THEN 0
                ELSE PlayerWeekTypeSum(g.db, p, g.week, {"PAYIN", "PAYOUT"})]

get_session_scores(db, p, now) ==
  LET g == get_current_week(db, now)
  IN [db |-> g.db, raised |-> g.raised,
      scores |-> [d \in WEEKDAYS |->
                    IF g.raised THEN 0
                    ELSE SumValues(SelectSeq(g.db.transactions,
                           LAMBDA t : /\ t.player = p /\ t.week = g.week
                                      /\ t.transaction_type = "SESSION"
                                      /\ t.weekday = d))]]

\* ------------------------------------------------------------- cashback
\* The tier test of Week.apply_cashback (only losses earn cashback).
LossCashback(weekly_total) ==
  IF weekly_total <= -200 * Cents /\ weekly_total > -500 * Cents
  THEN 50 * Cents
  ELSE IF weekly_total <= -500 * Cents THEN 100 * Cents ELSE 0

\* First loop of apply_cashback: one CASHBACK row per losing player.
RECURSIVE CashbackLoop(_, _, _, _)
CashbackLoop(db, order, week, cashback_total) ==
  IF order = <<>> THEN [db |-> db, cashback_total |-> cashback_total]
  ELSE LET player == Head(order)
           weekly_total == PlayerWeekSum(db, player, week)
           cashback == LossCashback(weekly_total)
       IN IF cashback > 0
          THEN CashbackLoop(
                 Transaction_create(db,
                   Txn(player, week, "CASHBACK", NoWeekday, cashback,
                       "Cashback for losses of", weekly_total)),
                 Tail(order), week, cashback_total + cashback)
          ELSE CashbackLoop(db, Tail(order), week, cashback_total)

\* Second loop: the (player, weekly_total) pairs with weekly_total > 0.
RECURSIVE Winners(_, _, _)
Winners(db, order, week) ==
  IF order = <<>> THEN <<>>
  ELSE LET weekly_total == PlayerWeekSum(db, Head(order), week)
           rest == Winners(db, Tail(order), week)
       IN IF weekly_total > 0 THEN <<<<Head(order), weekly_total>>>> \o rest
          ELSE rest

\* winners.sort(key=lambda x: x[1], reverse=True): stable, highest first.
RECURSIVE InsertWinner(_, _)
InsertWinner(sorted, x) ==
  IF sorted = <<>> THEN <<x>>
  ELSE IF Head(sorted)[2] >= x[2]
       THEN <<Head(sorted)>> \o InsertWinner(Tail(sorted), x)
       ELSE <<x>> \o sorted

RECURSIVE SortWinners(_)
SortWinners(ws) ==
  IF ws = <<>> THEN <<>>
  ELSE InsertWinner(SortWinners(SubSeq(ws, 1, Len(ws) - 1)), ws[Len(ws)])

\* (a / n).quantize(Decimal('0.01')) for a >= 0, in hundredths:
\* decimal's default rounding is ROUND_HALF_EVEN.
Quantize(a, n) ==
  LET q == a \div n
      r == a % n
  IN IF 2 * r < n THEN q
     ELSE IF 2 * r > n THEN q + 1
     ELSE IF q % 2 = 0 THEN q ELSE q + 1

\* for i, (player, _) in enumerate(winners): one CASHBACK_DEDUCTION each,
\* the last winner taking what is left.
RECURSIVE DeductLoop(_, _, _, _, _, _, _)
DeductLoop(db, winners, i, week, cashback_total, per_winner, distributed) ==
  IF i > Len(winners) THEN [db |-> db, distributed |-> distributed]
  ELSE LET deduction == IF i = Len(winners)
                        THEN cashback_total - distributed
                        ELSE per_winner
       IN DeductLoop(
            Transaction_create(db,
              Txn(winners[i][1], week, "CASHBACK_DEDUCTION", NoWeekday,
                  -deduction, "Cashback deduction", 0)),
            winners, i + 1, week, cashback_total, per_winner,
            distributed + deduction)

\* Variant: with no winner to charge, the cashback is taken from the pool
\* and no ledger row records it.
apply_cashback_Unrecorded(db, week) ==
  LET db0 == get_pool(db)
      pool0 == db0.pool
      l == CashbackLoop(db0, PlayersAll(db0), week, 0)
      cashback_total == l.cashback_total
  IN IF cashback_total > 0
     THEN LET winners == SortWinners(Winners(l.db, PlayersAll(l.db), week))
          IN IF winners # <<>>
             THEN DeductLoop(l.db, winners, 1, week, cashback_total,
                             Quantize(cashback_total, Len(winners)), 0).db
             ELSE [l.db EXCEPT !.pool =
                     [pool0 EXCEPT !.balance = @ - cashback_total]]
     ELSE l.db

apply_cashback(db, week) ==
  LET db0 == get_pool(db)
      pool0 == db0.pool
      l == CashbackLoop(db0, PlayersAll(db0), week, 0)
      cashback_total == l.cashback_total
  IN IF cashback_total > 0
     THEN LET winners == SortWinners(Winners(l.db, PlayersAll(l.db), week))
          IN IF winners # <<>>
             THEN LET per_winner == Quantize(cashback_total, Len(winners))
                      d == DeductLoop(l.db, winners, 1, week, cashback_total,
                                      per_winner, 0)
                      remainder == cashback_total - d.distributed
                  IN IF remainder > 0
                     THEN Transaction_create(
                            [d.db EXCEPT !.pool =
                               [pool0 EXCEPT !.balance = @ + remainder]],
                            Txn(NoPlayer, week, "POOL_ADDITION", NoWeekday,
                                remainder,
                                "Cashback distribution remainder", 0))
                     ELSE d.db
             ELSE l.db
     ELSE l.db

\* ----------------------------------------------------------- settlement
\* for player in Player.objects.all(): player.total_score +=
\* player.get_weekly_total(); player.save()
RECURSIVE UpdateTotals(_, _, _)
UpdateTotals(db, order, now) ==
  IF order = <<>> THEN [db |-> db, raised |-> FALSE]
  ELSE LET w == get_weekly_total(db, Head(order), now)
       IN IF w.raised THEN [db |-> w.db, raised |-> TRUE]
          ELSE UpdateTotals(
                 [w.db EXCEPT !.players[Head(order)].total_score =
                                 @ + w.total],
                 Tail(order), now)

start_new_week(db, now) ==
  LET g == get_current_week(db, now)
  IN IF g.raised THEN [db |-> g.db, week |-> 0, raised |-> TRUE]
     ELSE LET current_week == g.week
              db1 == [g.db EXCEPT !.weeks[current_week].is_current = FALSE,
                                  !.weeks[current_week].end_date = now]
              u == UpdateTotals(db1, PlayersAll(db1), now)
          IN IF u.raised THEN [db |-> u.db, week |-> 0, raised |-> TRUE]
             ELSE Week_create(apply_cashback(u.db, current_week),
                              db1.weeks[current_week].week_number + 1,
                              db1.weeks[current_week].year, now)

\* Variant: the original row is negated in place instead of compensated.
revert_InPlace(db, id) ==
  LET self == db.transactions[id]
  IN IF ~self.is_reverted
     THEN [db EXCEPT !.transactions[id].value = -self.value,
                     !.transactions[id].is_reverted = TRUE]
     ELSE db

\* Transaction.revert
revert(db, id) ==
  LET self == db.transactions[id]
  IN IF ~self.is_reverted
     THEN [Transaction_create(db,
             Txn(self.player, self.week, self.transaction_type, self.weekday,
                 -self.value, "Reversal of transaction #", id))
           EXCEPT !.transactions[id].is_reverted = TRUE]
     ELSE db

\* ------------------------------------------------- preview of views.new_week
\* The tier chain of the confirmation page (cashback_change, and what it
\* adds to total_cashback).
PreviewChange(weekly_total) ==
  IF weekly_total >= 500 * Cents THEN <<-100 * Cents, 100 * Cents>>
  ELSE IF weekly_total >= 200 * Cents THEN <<-50 * Cents, 50 * Cents>>
  ELSE IF weekly_total <= -200 * Cents /\ weekly_total > -500 * Cents
       THEN <<50 * Cents, -50 * Cents>>
  ELSE IF weekly_total <= -500 * Cents THEN <<100 * Cents, -100 * Cents>>
  ELSE <<0, 0>>

RECURSIVE SumOver(_, _)
SumOver(f, S) ==
  IF S = {} THEN 0
  ELSE LET x == CHOOSE y \in S : TRUE IN f[x] + SumOver(f, S \ {x})

new_week_preview(db, current_week) ==
  LET ids == 1..Len(db.players)
      player_totals == [p \in ids |->
        PlayerWeekTypeSum(db, p, current_week, {"PAYIN/OUT", "SESSION"})]
      cashback_change_map == [p \in ids |-> PreviewChange(player_totals[p])[1]]
      contribution == [p \in ids |-> PreviewChange(player_totals[p])[2]]
  IN [weekly_total |-> player_totals,
      cashback_change |-> cashback_change_map,
      new_total |-> [p \in ids |-> db.players[p].total_score
                                     + player_totals[p]
                                     + cashback_change_map[p]],
      total_cashback |-> SumOver(contribution, ids)]

\* ------------------------------------------------------------- handlers
Init ==
  /\ weeks = <<>>
  /\ players = <<>>
  /\ transactions = <<>>
  /\ pool = [exists |-> FALSE, balance |-> 0]
  /\ today = FirstYear
  /\ last = [op |-> "init", status |-> "ok", arg |-> 0, ret |-> 0,
             now |-> FirstYear]
  /\ pre = EmptyDB
  /\ procs = [p \in Procs |-> Idle]

\* The handler's writes reach the tables; the request and its outcome are
\* remembered together with the tables as they were when it started.
Respond(db, op, status, arg, ret) ==
  /\ weeks' = db.weeks
  /\ players' = db.players
  /\ transactions' = db.transactions
  /\ pool' = db.pool
  /\ last' = [op |-> op, status |-> status, arg |-> arg, ret |-> ret,
              now |-> today]
  /\ pre' = DB
  /\ UNCHANGED <<today, procs>>

\* timezone.now() moves into the next year between two requests.
NewYear ==
  /\ today < MaxYear
  /\ today' = today + 1
  /\ UNCHANGED <<weeks, players, transactions, pool, last, pre, procs>>

dashboard ==
  LET g == get_current_week(DB, today)
  IN IF g.raised THEN Respond(g.db, "dashboard", "500", 0, 0)
     ELSE Respond(get_pool(g.db), "dashboard", "ok", 0, g.week)

transaction_history ==
  LET g == get_current_week(DB, today)
  IN Respond(g.db, "transaction_history",
             IF g.raised THEN "500" ELSE "ok", 0, g.week)

manage_players ==
  \E name \in PlayerNames :
    IF \E i \in 1..Len(players) : players[i].name = name
    THEN Respond(DB, "manage_players", "invalid", 0, 0)
    ELSE Respond([DB EXCEPT !.players =
                    Append(@, [name |-> name, total_score |-> 0])],
                 "manage_players", "ok", Len(players) + 1, 0)

add_transaction ==
  /\ Len(transactions) < MaxTxns
  /\ \E p \in 1..Len(players), ty \in FormTypes, wd \in FormWeekdays,
        v \in FormValues :
       LET g == get_current_week(DB, today)
       IN IF g.raised THEN Respond(g.db, "add_transaction", "500", p, 0)
          ELSE IF ty = "SESSION" /\ wd = NoWeekday
          THEN Respond(g.db, "add_transaction", "invalid", p, 0)
          ELSE LET db1 == IF ty = "PAYIN/OUT" /\ p # NoPlayer
                          THEN [g.db EXCEPT !.players[p].total_score = @ + v]
                          ELSE g.db
               IN Respond(Transaction_create(db1,
                            Txn(p, g.week, ty, wd, v, "", 0)),
                          "add_transaction", "ok", p,
                          Len(transactions) + 1)

\* Variant: the session value is added to total_score at post time.
add_session_htmx_Scored ==
  /\ Len(transactions) < MaxTxns
  /\ \E p \in 1..Len(players), wd \in InputWeekdays, v \in SessionValues :
       LET g == get_current_week(DB, today)
       IN IF g.raised THEN Respond(g.db, "add_session_htmx", "500", p, 0)
          ELSE Respond(
                 [Transaction_create(g.db,
                    Txn(p, g.week, "SESSION", wd, v, "", 0))
                  EXCEPT !.players[p].total_score = @ + v],
                 "add_session_htmx", "ok", p, Len(transactions) + 1)

add_session_htmx ==
  /\ Len(transactions) < MaxTxns
  /\ \E p \in 1..Len(players), wd \in InputWeekdays, v \in SessionValues :
       LET g == get_current_week(DB, today)
       IN IF g.raised THEN Respond(g.db, "add_session_htmx", "500", p, 0)
          ELSE Respond(Transaction_create(g.db,
                         Txn(p, g.week, "SESSION", wd, v, "", 0)),
                       "add_session_htmx", "ok", p, Len(transactions) + 1)

add_transaction_htmx ==
  /\ Len(transactions) < MaxTxns
  /\ \E p \in 1..Len(players), ty \in {"PAYIN/OUT", "PAYIN"},
        v \in PayValues :
       IF ty # "PAYIN/OUT"
       THEN Respond(DB, "add_transaction_htmx", "400", p, 0)
       ELSE LET g == get_current_week(DB, today)
            IN IF g.raised
               THEN Respond(g.db, "add_transaction_htmx", "500", p, 0)
               ELSE Respond(
                      [Transaction_create(g.db,
                         Txn(p, g.week, ty, NoWeekday, v, "", 0))
                       EXCEPT !.players[p].total_score = @ + v],
                      "add_transaction_htmx", "ok", p, Len(transactions) + 1)

\* views.revert_transaction, explored while the ledger is shorter than cap.
revert_transaction_within(cap) ==
  \E id \in 1..Len(transactions) :
    /\ Len(transactions) < cap \/ transactions[id].is_reverted
    /\ LET g == get_current_week(DB, today)
       IN IF g.raised THEN Respond(g.db, "revert_transaction", "500", id, 0)
          ELSE IF transactions[id].week # g.week
          THEN Respond(g.db, "revert_transaction", "stale", id, 0)
          ELSE IF ~transactions[id].is_reverted
          THEN Respond(revert(g.db, id), "revert_transaction", "ok", id,
                       Len(transactions) + 1)
          ELSE Respond(g.db, "revert_transaction", "warning", id, 0)

revert_transaction == revert_transaction_within(MaxTxns)

\* POST /new-week/: Week.start_new_week() inside try/except Exception.
new_week ==
  /\ Len(weeks) < MaxWeeks
  /\ LET r == start_new_week(DB, today)
     IN Respond(r.db, "new_week", IF r.raised THEN "error" ELSE "ok",
                0, r.week)

\* GET /new-week/: the confirmation page.
new_week_confirm ==
  LET g == get_current_week(DB, today)
  IN Respond(g.db, "new_week_confirm",
             IF g.raised THEN "500" ELSE "ok", 0, g.week)

\* GET /week-history/: Week.objects.all(), no write.
week_history == Respond(DB, "week_history", "ok", 0, 0)

\* The requests urlpatterns serves.
Next ==
  \/ NewYear
  \/ dashboard
  \/ add_transaction
  \/ transaction_history
  \/ revert_transaction
  \/ new_week
  \/ new_week_confirm
  \/ manage_players
  \/ week_history

Spec == Init /\ [][Next]_vars

\* The routed requests together with the two HTMX views of views.py, which
\* urls.py leaves without a path, called as functions.
NextViews ==
  \/ Next
  \/ add_session_htmx
  \/ add_transaction_htmx

SpecViews == Init /\ [][NextViews]_vars

\* payin_total of add_transaction_htmx's response.
payin_total(db, p, w) == PlayerWeekTypeSum(db, p, w, {"PAYIN/OUT"})

\* Transaction.revert called on a row directly (the method itself, without
\* the checks of views.revert_transaction in front of it).
Transaction_revert ==
  \E id \in 1..Len(transactions) :
    /\ Len(transactions) < MaxTxns \/ transactions[id].is_reverted
    /\ Respond(revert(DB, id), "Transaction.revert",
               IF transactions[id].is_reverted THEN "noop" ELSE "ok",
               id, 0)

NextDirect == Next \/ Transaction_revert

SpecDirect == Init /\ [][NextDirect]_vars

\* ---------------------------------------------------- chains of reverts
\* The posting and reverting handlers alone, with room in the ledger for a
\* transaction, its reversal and the reversal of that reversal.
revert_transaction_again == revert_transaction_within(MaxLedger)

NextChain ==
  \/ manage_players
  \/ add_transaction
  \/ revert_transaction_again

SpecChain == Init /\ [][NextChain]_vars

\* ------------------------------------------------- concurrent requests
\* Requests served at the same time by different workers.  Every ORM call
\* is its own committed statement, so the statements of two requests
\* interleave; a step below is one statement.  A request keeps what it has
\* read in its own record: current_week is the result of its latest
\* Week.get_current_week(), settling the week start_new_week is closing,
\* order / snap the rows of its latest Player.objects.all(), player_row and
\* transaction_row the row it has fetched.  pc is the statement it is
\* about to execute and rest the statements that follow it.
\* The commands are the views (start_new_week is the POST of views.new_week,
\* new_week_confirm its GET, manage_players and add_transaction their
\* POST) and Week.get_current_week called by itself.
Cmds ==
  {"get_current_week", "start_new_week", "dashboard", "add_transaction",
   "add_session_htmx", "add_transaction_htmx", "transaction_history",
   "revert_transaction", "new_week_confirm", "manage_players",
   "week_history"}

RECURSIVE Repeat(_, _)
Repeat(seq, n) == IF n = 0 THEN <<>> ELSE seq \o Repeat(seq, n - 1)

\* The seven weekday aggregates of Player.get_session_scores.
WeekdayReads == Repeat(<<"select">>, Cardinality(WEEKDAYS))

\* What views.dashboard runs for each player: get_session_scores,
\* get_payin_payout_balance, get_weekly_total, each after its own
\* Week.get_current_week().
DashboardPlayer ==
  <<"read">> \o WeekdayReads \o <<"read", "select", "read", "select">>

\* The statements of a request, the first one first.  "read" is the SELECT
\* of Week.get_current_week (followed by its INSERT when it finds nothing),
\* "select" a query whose rows go to the response only.  form.is_valid()
\* of add_transaction reads the chosen Player twice (the choice field
\* resolves the id, the model validation checks the foreign key).
Statements(cmd) ==
  CASE cmd = "get_current_week" -> <<"read">>
    [] cmd = "start_new_week" -> <<"read", "close">>
    [] cmd = "dashboard" -> <<"read", "pool", "list_players">>
    [] cmd = "add_transaction" -> <<"select", "select", "read", "insert">>
    [] cmd = "add_session_htmx" ->
         <<"select", "read", "insert", "read", "select", "read">>
           \o WeekdayReads \o <<"read", "select">>
    [] cmd = "add_transaction_htmx" ->
         <<"get_player", "read", "insert", "save_player", "read", "select">>
    [] cmd = "transaction_history" -> <<"read", "select">>
    [] cmd = "revert_transaction" -> <<"get_transaction", "read", "check">>
    [] cmd = "new_week_confirm" -> <<"read", "list_players">>
    [] cmd = "manage_players" -> <<"name_check">>
    [] cmd = "week_history" -> <<"select">>

\* The row a posting view inserts (one input per view).
PostedRow(q) ==
  CASE q.cmd = "add_transaction" ->
         Txn(q.player, q.current_week, "SESSION", "Monday", -200 * Cents,
             "", 0)
    [] q.cmd = "add_session_htmx" ->
         Txn(q.player, q.current_week, "SESSION", "Monday", 200 * Cents,
             "", 0)
    [] q.cmd = "add_transaction_htmx" ->
         Txn(q.player, q.current_week, "PAYIN/OUT", NoWeekday, 300 * Cents,
             "", 0)

\* The request goes on to its next statement, or has returned.
Continue(q) ==
  IF q.rest = <<>> THEN [q EXCEPT !.pc = "done"]
  ELSE [q EXCEPT !.pc = Head(q.rest), !.rest = Tail(q.rest)]

\* The request goes on with the statements seq.
Run(q, seq) == Continue([q EXCEPT !.rest = seq])

\* An exception leaves the request.
Raise(q) == [q EXCEPT !.pc = "failed", !.rest = <<>>]

\* A start_new_week that has saved the closed week and not yet returned.
MidSettlement(q) ==
  /\ procs[q].cmd = "start_new_week"
  /\ procs[q].closed
  /\ procs[q].pc \notin {"done", "failed"}

SetTables(db) ==
  /\ weeks' = db.weeks
  /\ players' = db.players
  /\ transactions' = db.transactions
  /\ pool' = db.pool
  /\ UNCHANGED <<today, last, pre>>

NoWrite == UNCHANGED <<weeks, players, transactions, pool, today, last, pre>>

\* The tables the concurrent requests start from: no Week yet; Week 1
\* open and nobody registered; Week 1 open with one player (no score, a
\* win, a loss) or two players (a win and a loss), the year turned; the
\* one player with a loss in the year of Week 1.
ConcStarts ==
  LET week1 == [week_number |-> 1, year |-> FirstYear,
                start_date |-> FirstYear, end_date |-> NullDate,
                is_current |-> TRUE]
      one == [EmptyDB EXCEPT
                !.weeks = <<week1>>,
                !.players = <<[name |-> 1, total_score |-> 0]>>]
      two == [EmptyDB EXCEPT
                !.weeks = <<week1>>,
                !.players = <<[name |-> 1, total_score |-> 0],
                              [name |-> 2, total_score |-> 0]>>]
      loss == [one EXCEPT !.transactions =
                 <<Txn(1, 1, "SESSION", "Monday", -200 * Cents, "", 0)>>]
  IN {[db |-> EmptyDB, now |-> FirstYear],
      [db |-> [EmptyDB EXCEPT !.weeks = <<week1>>], now |-> FirstYear],
      [db |-> one, now |-> FirstYear + 1],
      [db |-> [one EXCEPT !.transactions =
                 <<Txn(1, 1, "SESSION", "Monday", 200 * Cents, "", 0)>>],
       now |-> FirstYear + 1],
      [db |-> loss, now |-> FirstYear + 1],
      [db |-> loss, now |-> FirstYear],
      [db |-> [two EXCEPT !.transactions =
                 <<Txn(1, 1, "SESSION", "Monday", 200 * Cents, "", 0),
                   Txn(2, 1, "SESSION", "Monday", -200 * Cents, "", 0)>>],
       now |-> FirstYear + 1]}

\* A request as it arrives, with its input: the player of a post, the
\* transaction_id of a revert, the name of a registration.
Arrived(cmd, input) ==
  Run([cmd |-> cmd, pc |-> "done", rest |-> <<>>, current_week |-> 0,
       looked |-> FALSE, found |-> FALSE, seen |-> 0, mid |-> FALSE,
       closed |-> FALSE, settling |-> 0,
       player |-> IF cmd \in {"add_transaction", "add_session_htmx",
                              "add_transaction_htmx"} THEN input ELSE 0,
       transaction_id |-> IF cmd = "revert_transaction" THEN input ELSE 0,
       name |-> IF cmd = "manage_players" THEN input ELSE 0,
       player_row |-> [name |-> 0, total_score |-> 0],
       transaction_row |-> Txn(0, 0, "", NoWeekday, 0, "", 0),
       order |-> <<>>, snap |-> <<>>, total |-> 0, cashback_total |-> 0,
       winners |-> <<>>, i |-> 0, per_winner |-> 0, distributed |-> 0,
       pool_balance |-> 0],
      Statements(cmd))

\* The inputs a request can arrive with on the tables db.
Inputs(cmd, db) ==
  CASE cmd \in {"add_transaction", "add_session_htmx",
                "add_transaction_htmx"} -> 1..Len(db.players)
    [] cmd = "revert_transaction" -> 1..Len(db.transactions)
    [] cmd = "manage_players" -> PlayerNames
    [] OTHER -> {0}

InitConc ==
  \E s \in ConcStarts, c \in [Procs -> Cmds],
     input \in [Procs -> 0..MaxPlayers] :
    /\ \A p \in Procs : input[p] \in Inputs(c[p], s.db)
    /\ weeks = s.db.weeks
    /\ players = s.db.players
    /\ transactions = s.db.transactions
    /\ pool = s.db.pool
    /\ today = s.now
    /\ last = [op |-> "init", status |-> "ok", arg |-> 0, ret |-> 0,
               now |-> s.now]
    /\ pre = s.db
    /\ procs = [p \in Procs |-> Arrived(c[p], input[p])]

\* cls.objects.filter(is_current=True).first()
LookupStep ==
  \E p \in Procs :
    /\ procs[p].pc = "read"
    /\ LET cur == CurrentWeeks(weeks)
           found == IF cur # {} THEN FirstWeek(weeks, cur) ELSE 0
           q == [procs[p] EXCEPT
                   !.current_week = found,
                   !.looked = TRUE,
                   !.found = found # 0,
                   !.seen = Len(weeks),
                   !.mid = \E o \in Procs \ {p} : MidSettlement(o)]
       IN procs' = [procs EXCEPT ![p] =
            IF found = 0 THEN [q EXCEPT !.pc = "create"] ELSE Continue(q)]
    /\ NoWrite

\* cls.objects.create(week_number=1, year=today.year, ...)
CreateStep ==
  \E p \in Procs :
    /\ procs[p].pc = "create"
    /\ LET r == Week_create(DB, 1, today, today)
       IN /\ SetTables(r.db)
          /\ procs' = [procs EXCEPT ![p] =
               IF r.raised THEN Raise(procs[p])
               ELSE Continue([procs[p] EXCEPT !.current_week = r.week])]

\* A query whose rows only go to the response, or a row fetched and not
\* written back: Player.objects.get, the aggregates of the views and of
\* the Player methods, transaction.week, self.player, Week.objects.all().
SelectStep ==
  \E p \in Procs :
    /\ procs[p].pc = "select"
    /\ procs' = [procs EXCEPT ![p] = Continue(procs[p])]
    /\ NoWrite

\* Pool.get_pool(): the SELECT of get_or_create(id=1)
PoolStep ==
  \E p \in Procs :
    /\ procs[p].pc = "pool"
    /\ procs' = [procs EXCEPT ![p] =
         IF pool.exists
         THEN Continue([procs[p] EXCEPT !.pool_balance = pool.balance])
         ELSE [procs[p] EXCEPT !.pc = "pool_insert"]]
    /\ NoWrite

\* the INSERT of get_or_create; when the row has appeared meanwhile the
\* INSERT fails, get_or_create catches the IntegrityError and reads again.
PoolInsertStep ==
  \E p \in Procs :
    /\ procs[p].pc = "pool_insert"
    /\ SetTables(get_pool(DB))
    /\ procs' = [procs EXCEPT ![p] =
         IF pool.exists THEN [procs[p] EXCEPT !.pc = "pool_get"]
         ELSE Continue([procs[p] EXCEPT !.pool_balance = 0])]

\* the SELECT of get_or_create after its INSERT failed
PoolGetStep ==
  \E p \in Procs :
    /\ procs[p].pc = "pool_get"
    /\ procs' = [procs EXCEPT ![p] =
         Continue([procs[p] EXCEPT !.pool_balance = pool.balance])]
    /\ NoWrite

\* for player in players: of views.dashboard and of the confirmation page
\* of views.new_week; the queryset is evaluated here, once.
ListPlayersStep ==
  \E p \in Procs :
    /\ procs[p].pc = "list_players"
    /\ procs' = [procs EXCEPT ![p] =
         Run(procs[p],
             Repeat(IF procs[p].cmd = "dashboard" THEN DashboardPlayer
                    ELSE <<"select">>,
                    Len(players)))]
    /\ NoWrite

\* Player.objects.get(id=player_id) of add_transaction_htmx: the row it
\* later saves.
GetPlayerStep ==
  \E p \in Procs :
    /\ procs[p].pc = "get_player"
    /\ procs' = [procs EXCEPT ![p] =
         Continue([procs[p] EXCEPT
                     !.player_row = players[procs[p].player]])]
    /\ NoWrite

\* transaction.save() of add_transaction, Transaction.objects.create of
\* the HTMX views
InsertStep ==
  \E p \in Procs :
    /\ procs[p].pc = "insert"
    /\ SetTables(Transaction_create(DB, PostedRow(procs[p])))
    /\ procs' = [procs EXCEPT ![p] = Continue(procs[p])]

\* player.total_score += value_dec; player.save(), on the row as fetched
SavePlayerStep ==
  \E p \in Procs :
    /\ procs[p].pc = "save_player"
    /\ SetTables([DB EXCEPT !.players[procs[p].player] =
                    [procs[p].player_row EXCEPT
                       !.total_score = @ + PostedRow(procs[p]).value]])
    /\ procs' = [procs EXCEPT ![p] = Continue(procs[p])]

\* get_object_or_404(Transaction, id=transaction_id)
GetTransactionStep ==
  \E p \in Procs :
    /\ procs[p].pc = "get_transaction"
    /\ procs' = [procs EXCEPT ![p] =
         Continue([procs[p] EXCEPT
                     !.transaction_row =
                        transactions[procs[p].transaction_id]])]
    /\ NoWrite

\* transaction.week != current_week (the week row is fetched here), then
\* the is_reverted tests of the view and of Transaction.revert on the row
\* as fetched; revert goes on to read self.player.
CheckStep ==
  \E p \in Procs :
    /\ procs[p].pc = "check"
    /\ procs' = [procs EXCEPT ![p] =
         IF procs[p].transaction_row.week # procs[p].current_week
            \/ procs[p].transaction_row.is_reverted
         THEN Continue(procs[p])
         ELSE Run(procs[p], <<"select", "insert_reversal", "mark">>)]
    /\ NoWrite

\* Transaction.objects.create(... value=-self.value ...) of revert
InsertReversalStep ==
  \E p \in Procs :
    /\ procs[p].pc = "insert_reversal"
    /\ LET self == procs[p].transaction_row
       IN SetTables(Transaction_create(DB,
            Txn(self.player, self.week, self.transaction_type, self.weekday,
                -self.value, "Reversal of transaction #",
                procs[p].transaction_id)))
    /\ procs' = [procs EXCEPT ![p] = Continue(procs[p])]

\* self.is_reverted = True; self.save(), on the row as fetched
MarkStep ==
  \E p \in Procs :
    /\ procs[p].pc = "mark"
    /\ SetTables([DB EXCEPT !.transactions[procs[p].transaction_id] =
                    [procs[p].transaction_row EXCEPT !.is_reverted = TRUE]])
    /\ procs' = [procs EXCEPT ![p] = Continue(procs[p])]

\* form.is_valid() of PlayerForm: the unique check on name; an invalid
\* form goes on to list the players.
NameCheckStep ==
  \E p \in Procs :
    /\ procs[p].pc = "name_check"
    /\ procs' = [procs EXCEPT ![p] =
         IF \E i \in 1..Len(players) : players[i].name = procs[p].name
         THEN [procs[p] EXCEPT !.pc = "select"]
         ELSE [procs[p] EXCEPT !.pc = "insert_player"]]
    /\ NoWrite

\* form.save(): name is unique, the INSERT raises when it has been taken.
InsertPlayerStep ==
  \E p \in Procs :
    /\ procs[p].pc = "insert_player"
    /\ IF \E i \in 1..Len(players) : players[i].name = procs[p].name
       THEN /\ NoWrite
            /\ procs' = [procs EXCEPT ![p] = Raise(procs[p])]
       ELSE /\ SetTables([DB EXCEPT !.players =
                            Append(@, [name |-> procs[p].name,
                                       total_score |-> 0])])
            /\ procs' = [procs EXCEPT ![p] = Continue(procs[p])]

\* current_week.is_current = False; current_week.end_date = ...; save()
CloseStep ==
  \E p \in Procs :
    /\ procs[p].pc = "close"
    /\ SetTables([DB EXCEPT
                    !.weeks[procs[p].current_week].is_current = FALSE,
                    !.weeks[procs[p].current_week].end_date = today])
    /\ procs' = [procs EXCEPT ![p] =
         [@ EXCEPT !.pc = "players", !.closed = TRUE,
                   !.settling = procs[p].current_week]]

\* Where start_new_week goes after a player of its loop.
AfterPlayer(q, order) ==
  IF order = <<>> THEN Run([q EXCEPT !.order = order], <<"pool", "losers">>)
  ELSE Run([q EXCEPT !.order = order], <<"read", "sum">>)

\* for player in Player.objects.all(): the rows are read once, here.
PlayersStep ==
  \E p \in Procs :
    /\ procs[p].pc = "players"
    /\ procs' = [procs EXCEPT ![p] =
         AfterPlayer([procs[p] EXCEPT !.snap = players], PlayersAll(DB))]
    /\ NoWrite

\* the aggregate of Player.get_weekly_total, after its get_current_week
SumStep ==
  \E p \in Procs :
    /\ procs[p].pc = "sum"
    /\ procs' = [procs EXCEPT ![p] =
         [@ EXCEPT !.total = PlayerWeekSum(DB, Head(procs[p].order),
                                           procs[p].current_week),
                   !.pc = "save"]]
    /\ NoWrite

\* player.total_score += weekly_total; player.save(), on the row as read
SaveStep ==
  \E p \in Procs :
    /\ procs[p].pc = "save"
    /\ LET player == Head(procs[p].order)
       IN /\ SetTables([DB EXCEPT !.players[player] =
                          [procs[p].snap[player] EXCEPT
                             !.total_score = @ + procs[p].total]])
          /\ procs' = [procs EXCEPT ![p] =
               AfterPlayer(procs[p], Tail(procs[p].order))]

\* Where the first loop of apply_cashback goes after a player.
AfterLoser(rest, cashback_total) ==
  IF rest # <<>> THEN "loss_sum"
  ELSE IF cashback_total > 0 THEN "winners" ELSE "newweek"

\* for player in Player.objects.all() of the first loop
LosersStep ==
  \E p \in Procs :
    /\ procs[p].pc = "losers"
    /\ procs' = [procs EXCEPT ![p] =
         [@ EXCEPT !.order = PlayersAll(DB),
                   !.cashback_total = 0,
                   !.pc = AfterLoser(PlayersAll(DB), 0)]]
    /\ NoWrite

\* weekly_total of the first loop, and the tier test
LossSumStep ==
  \E p \in Procs :
    /\ procs[p].pc = "loss_sum"
    /\ LET weekly_total == PlayerWeekSum(DB, Head(procs[p].order),
                                         procs[p].settling)
           rest == Tail(procs[p].order)
       IN procs' = [procs EXCEPT ![p] =
            IF LossCashback(weekly_total) > 0
            THEN [@ EXCEPT !.total = weekly_total, !.pc = "cashback"]
            ELSE [@ EXCEPT !.total = weekly_total, !.order = rest,
                           !.pc = AfterLoser(rest,
                                             procs[p].cashback_total)]]
    /\ NoWrite

\* Transaction.objects.create(... transaction_type='CASHBACK' ...)
CashbackInsertStep ==
  \E p \in Procs :
    /\ procs[p].pc = "cashback"
    /\ LET cashback == LossCashback(procs[p].total)
           rest == Tail(procs[p].order)
       IN /\ SetTables(Transaction_create(DB,
               Txn(Head(procs[p].order), procs[p].settling, "CASHBACK",
                   NoWeekday, cashback, "Cashback for losses of",
                   procs[p].total)))
          /\ procs' = [procs EXCEPT ![p] =
               [@ EXCEPT !.cashback_total = @ + cashback,
                         !.order = rest,
                         !.pc = AfterLoser(rest,
                                  procs[p].cashback_total + cashback)]]

\* for player in Player.objects.all() of the second loop
WinnersStep ==
  \E p \in Procs :
    /\ procs[p].pc = "winners"
    /\ procs' = [procs EXCEPT ![p] =
         [@ EXCEPT !.order = PlayersAll(DB),
                   !.winners = <<>>,
                   !.pc = IF players = <<>> THEN "newweek" ELSE "win_sum"]]
    /\ NoWrite

\* weekly_total of the second loop; after the last player the winners are
\* sorted and per_winner is computed.
WinSumStep ==
  \E p \in Procs :
    /\ procs[p].pc = "win_sum"
    /\ LET player == Head(procs[p].order)
           rest == Tail(procs[p].order)
           weekly_total == PlayerWeekSum(DB, player, procs[p].settling)
           winners == IF weekly_total > 0
                      THEN Append(procs[p].winners, <<player, weekly_total>>)
                      ELSE procs[p].winners
       IN procs' = [procs EXCEPT ![p] =
            IF rest # <<>>
            THEN [@ EXCEPT !.winners = winners, !.order = rest]
            ELSE IF winners = <<>>
            THEN [@ EXCEPT !.winners = winners, !.order = rest,
                           !.pc = "newweek"]
            ELSE [@ EXCEPT !.winners = SortWinners(winners),
                           !.order = rest,
                           !.per_winner =
                              Quantize(procs[p].cashback_total, Len(winners)),
                           !.distributed = 0,
                           !.i = 1,
                           !.pc = "deduct"]]
    /\ NoWrite

\* Transaction.objects.create(... 'CASHBACK_DEDUCTION' ...) for winner i;
\* after the last one, remainder = cashback_total - distributed goes to
\* the pool with its POOL_ADDITION row when it is positive.
DeductStep ==
  \E p \in Procs :
    /\ procs[p].pc = "deduct"
    /\ LET q == procs[p]
           is_last == q.i = Len(q.winners)
           deduction == IF is_last THEN q.cashback_total - q.distributed
                        ELSE q.per_winner
           db1 == Transaction_create(DB,
                    Txn(q.winners[q.i][1], q.settling, "CASHBACK_DEDUCTION",
                        NoWeekday, -deduction, "Cashback deduction", 0))
           remainder == q.cashback_total - (q.distributed + deduction)
       IN /\ SetTables(
               IF is_last /\ remainder > 0
               THEN Transaction_create(
                      [db1 EXCEPT !.pool.balance =
                                     q.pool_balance + remainder],
                      Txn(NoPlayer, q.settling, "POOL_ADDITION", NoWeekday,
                          remainder, "Cashback distribution remainder", 0))
               ELSE db1)
          /\ procs' = [procs EXCEPT ![p] =
               [@ EXCEPT !.distributed = @ + deduction,
                         !.i = @ + 1,
                         !.pc = IF is_last THEN "newweek" ELSE "deduct"]]

\* cls.objects.create(week_number=current_week.week_number + 1, ...)
NewWeekStep ==
  \E p \in Procs :
    /\ procs[p].pc = "newweek"
    /\ LET cw == weeks[procs[p].settling]
           r == Week_create(DB, cw.week_number + 1, cw.year, today)
       IN /\ SetTables(r.db)
          /\ procs' = [procs EXCEPT ![p] =
               IF r.raised THEN Raise(procs[p])
               ELSE [procs[p] EXCEPT !.pc = "done"]]

NextConc ==
  \/ LookupStep
  \/ CreateStep
  \/ SelectStep
  \/ PoolStep
  \/ PoolInsertStep
  \/ PoolGetStep
  \/ ListPlayersStep
  \/ GetPlayerStep
  \/ InsertStep
  \/ SavePlayerStep
  \/ GetTransactionStep
  \/ CheckStep
  \/ InsertReversalStep
  \/ MarkStep
  \/ NameCheckStep
  \/ InsertPlayerStep
  \/ CloseStep
  \/ PlayersStep
  \/ SumStep
  \/ SaveStep
  \/ LosersStep
  \/ LossSumStep
  \/ CashbackInsertStep
  \/ WinnersStep
  \/ WinSumStep
  \/ DeductStep
  \/ NewWeekStep

SpecConc == InitConc /\ [][NextConc]_vars

\* ======================================================================
\* Properties.  `last` is the most recent request and its outcome, `pre`
\* the tables as that request found them.
\* ======================================================================
Settled == last.op = "new_week" /\ last.status = "ok"

SettlementFailed == last.op = "new_week" /\ last.status = "error"

PreHasCurrent == CurrentWeeks(pre.weeks) # {}

\* The week Week.start_new_week found current and set out to close.
ClosedWeek == FirstWeek(pre.weeks, CurrentWeeks(pre.weeks))

\* sessionTotal(player, week) of the specification.
SessionTotal(db, p, w) == PlayerWeekTypeSum(db, p, w, {"SESSION"})

\* cashbackFor(S) of the specification:
\* <<total_score adjustment, pool contribution>>.
CashbackFor(S) ==
  CASE S >= 500 * Cents -> <<-100 * Cents, 100 * Cents>>
    [] S >= 200 * Cents /\ S < 500 * Cents -> <<-50 * Cents, 50 * Cents>>
    [] S > -500 * Cents /\ S <= -200 * Cents -> <<50 * Cents, -50 * Cents>>
    [] S <= -500 * Cents -> <<100 * Cents, -100 * Cents>>
    [] OTHER -> <<0, 0>>

\* The rows the last request appended to the ledger.
AppendedIds == (Len(pre.transactions) + 1)..Len(transactions)

Appended ==
  SubSeq(transactions, Len(pre.transactions) + 1, Len(transactions))

\* What the settlement posted for player p as cashback or deduction.
AppliedAdjustment(p) ==
  SumValues(SelectSeq(Appended,
    LAMBDA t : /\ t.player = p
               /\ t.transaction_type \in {"CASHBACK", "CASHBACK_DEDUCTION"}))

ScoreDelta(p) == players[p].total_score - pre.players[p].total_score

PoolDelta == pool.balance - pre.pool.balance

PlayerIds == 1..Len(players)

\* C1: once get_current_week has been called (a Week row exists only after
\* that), exactly one Week has is_current = true in every reachable state.
C1_ExactlyOneCurrentWeek ==
  Len(weeks) > 0 => Cardinality(CurrentWeeks(weeks)) = 1

\* C2: closing a week whose SESSION values do not sum to zero on some
\* weekday fails, and the week stays open.
C2_UnbalancedWeekBlocksSettlement ==
  (/\ last.op = "new_week"
   /\ PreHasCurrent
   /\ \E d \in WEEKDAYS : DayTotal(pre, ClosedWeek, d) # 0)
  => /\ last.status = "error"
     /\ weeks[ClosedWeek].is_current
     /\ weeks[ClosedWeek].end_date = NullDate

\* C3: a failed start_new_week leaves every Week, every total_score, the
\* pool balance and the ledger exactly as before the call.
C3_FailedSettlementRollsBack ==
  SettlementFailed =>
    /\ weeks = pre.weeks
    /\ players = pre.players
    /\ transactions = pre.transactions
    /\ pool.balance = pre.pool.balance

\* C4: with at least one player and every weekday's SESSION sum zero,
\* start_new_week succeeds and a new current week exists.
C4_BalancedWeekSettles ==
  (/\ last.op = "new_week"
   /\ PreHasCurrent
   /\ Len(pre.players) > 0
   /\ \A d \in WEEKDAYS : DayTotal(pre, ClosedWeek, d) = 0)
  => /\ last.status = "ok"
     /\ \E w \in (Len(pre.weeks) + 1)..Len(weeks) : weeks[w].is_current

\* C5: a successful start_new_week adds exactly one Week, the one it
\* returns: current, numbered one past the closed week, same year; the
\* closed week is no longer current and has an end_date.
C5_SettlementCreatesOneWeek ==
  (Settled /\ PreHasCurrent) =>
    /\ Len(weeks) = Len(pre.weeks) + 1
    /\ last.ret = Len(weeks)
    /\ weeks[last.ret].is_current
    /\ weeks[last.ret].week_number = pre.weeks[ClosedWeek].week_number + 1
    /\ weeks[last.ret].year = pre.weeks[ClosedWeek].year
    /\ ~weeks[ClosedWeek].is_current
    /\ weeks[ClosedWeek].end_date # NullDate

\* C6: over a successful settlement the changes of all total_scores and
\* the change of the pool balance add up to zero.
C6_SettlementZeroSum ==
  Settled =>
    SumOver([p \in PlayerIds |-> ScoreDelta(p)], PlayerIds) + PoolDelta = 0

C6_Witness ==
  /\ Settled
  /\ \E i \in AppendedIds : transactions[i].transaction_type = "CASHBACK"
  /\ \E i \in AppendedIds :
       transactions[i].transaction_type = "CASHBACK_DEDUCTION"

\* C7: the cashback posted for each player at settlement, and the change
\* the confirmation page announces, are both the symmetric tier table
\* applied to the player's session total of the closed week.
C7_CashbackFollowsTierTable ==
  (Settled /\ PreHasCurrent) =>
    \A p \in PlayerIds :
      LET S == SessionTotal(pre, p, ClosedWeek)
      IN /\ AppliedAdjustment(p) = CashbackFor(S)[1]
         /\ new_week_preview(pre, ClosedWeek).cashback_change[p]
              = CashbackFor(S)[1]

\* C8: over a successful settlement each total_score changes by the
\* player's session total of the closed week plus the cashback posted
\* for that player.
C8_TotalScoreAbsorbsSessionTotal ==
  (Settled /\ PreHasCurrent) =>
    \A p \in PlayerIds :
      ScoreDelta(p) = SessionTotal(pre, p, ClosedWeek) + AppliedAdjustment(p)

\* The net accumulator of the specification's step 2.
Accumulator ==
  SumOver([p \in PlayerIds |->
             CashbackFor(SessionTotal(pre, p, ClosedWeek))[2]], PlayerIds)

PoolAdditions ==
  {i \in AppendedIds : transactions[i].transaction_type = "POOL_ADDITION"}

\* C9: a successful settlement moves the pool by the net accumulator and
\* records it in one POOL_ADDITION row (player null, the closed week);
\* with a zero accumulator it touches neither.
C9_PoolTakesAccumulator ==
  (Settled /\ PreHasCurrent) =>
    IF Accumulator # 0
    THEN /\ PoolDelta = Accumulator
         /\ Cardinality(PoolAdditions) = 1
         /\ \A i \in PoolAdditions :
              /\ transactions[i].player = NoPlayer
              /\ transactions[i].week = ClosedWeek
              /\ transactions[i].value = Accumulator
    ELSE PoolDelta = 0 /\ PoolAdditions = {}

ReversalsOf(id) ==
  {j \in 1..Len(transactions) :
     /\ transactions[j].description.text = "Reversal of transaction #"
     /\ transactions[j].description.arg = id}

\* C10: a revert of an already reverted transaction fails and changes
\* nothing (no Week, Transaction, Player or Pool row is written); a
\* successful revert appends exactly one row with the same player, week,
\* type and weekday and the negated value, marks the original reverted and
\* keeps its value; no transaction ever has two compensating rows.
C10_RevertOnce ==
  /\ \A id \in 1..Len(transactions) : Cardinality(ReversalsOf(id)) <= 1
  /\ (last.op = "revert_transaction" /\ pre.transactions[last.arg].is_reverted)
     => /\ last.status # "ok"
        /\ transactions = pre.transactions
        /\ players = pre.players
        /\ pool = pre.pool
        /\ weeks = pre.weeks
  /\ (last.op = "revert_transaction" /\ last.status = "ok")
     => LET orig == pre.transactions[last.arg]
            new == transactions[Len(transactions)]
        IN /\ ~orig.is_reverted
           /\ Len(transactions) = Len(pre.transactions) + 1
           /\ new.player = orig.player
           /\ new.week = orig.week
           /\ new.transaction_type = orig.transaction_type
           /\ new.weekday = orig.weekday
           /\ new.value = -orig.value
           /\ transactions[last.arg] = [orig EXCEPT !.is_reverted = TRUE]
           /\ \A j \in 1..Len(pre.transactions) :
                j # last.arg => transactions[j] = pre.transactions[j]

\* ---------------------------------------------------------------------
IsRevert == last.op \in {"revert_transaction", "Transaction.revert"}

\* C11: a revert of a transaction whose week is closed fails and leaves the
\* ledger, every total_score and the pool unchanged, also when
\* Transaction.revert is called directly; no revert appends to a closed week.
C11_StaleRevertRefused ==
  (IsRevert /\ ~pre.weeks[pre.transactions[last.arg].week].is_current)
  => /\ last.status # "ok"
     /\ transactions = pre.transactions
     /\ players = pre.players
     /\ pool = pre.pool

\* C12: a successful revert of a PAYIN/OUT transaction of value v takes v
\* off the player's total_score again.
C12_RevertUndoesPayin ==
  (/\ last.op = "revert_transaction"
   /\ last.status = "ok"
   /\ pre.transactions[last.arg].transaction_type = "PAYIN/OUT")
  => LET t == pre.transactions[last.arg]
     IN ScoreDelta(t.player) = -t.value

PayTypes == {"PAYIN", "PAYOUT", "PAYIN/OUT"}

Posted == transactions[Len(transactions)]

PostedBy(ops) ==
  /\ last.op \in ops
  /\ last.status = "ok"
  /\ Len(transactions) = Len(pre.transactions) + 1

\* C13: every successful pay-in / pay-out post of value v, through
\* add_transaction or add_transaction_htmx, raises the player's total_score
\* by v.
C13_PayinPostsImmediately ==
  (/\ PostedBy({"add_transaction", "add_transaction_htmx"})
   /\ Posted.transaction_type \in PayTypes)
  => ScoreDelta(Posted.player) = Posted.value

\* C14: a SESSION post (add_session_htmx, or add_transaction with type
\* SESSION) leaves every total_score and the pool balance unchanged.
C14_SessionPostKeepsTotals ==
  (/\ PostedBy({"add_transaction", "add_session_htmx"})
   /\ Posted.transaction_type = "SESSION")
  => /\ players = pre.players
     /\ pool.balance = pre.pool.balance

C14_Witness ==
  /\ PostedBy({"add_session_htmx"})
  /\ Posted.transaction_type = "SESSION"
  /\ Posted.value # 0
  /\ \E i \in 1..Len(pre.transactions) :
       pre.transactions[i].transaction_type = "PAYIN/OUT"

\* C17: a Week that is not current never becomes current again, and an
\* end_date once set is never cleared.
C17_WeekNeverReopens ==
  [][\A w \in 1..Len(weeks) :
       /\ ~weeks[w].is_current => ~weeks'[w].is_current
       /\ weeks[w].end_date # NullDate => weeks'[w].end_date # NullDate]_vars

C17_Witness ==
  /\ last.op = "new_week"
  /\ \E w \in 1..Len(pre.weeks) :
       /\ ~pre.weeks[w].is_current
       /\ ~weeks[w].is_current
       /\ weeks[w].end_date # NullDate
  /\ weeks # pre.weeks

\* C18: no request deletes a Transaction or changes its player, week,
\* type, weekday or value; is_reverted only goes from false to true.
C18_LedgerAppendOnly ==
  /\ Len(transactions) >= Len(pre.transactions)
  /\ \A i \in 1..Len(pre.transactions) :
       /\ transactions[i] =
            [pre.transactions[i] EXCEPT
               !.is_reverted = transactions[i].is_reverted]
       /\ pre.transactions[i].is_reverted => transactions[i].is_reverted

C18_Witness ==
  /\ last.op = "revert_transaction"
  /\ \E i \in 1..Len(pre.transactions) :
       transactions[i].is_reverted /\ ~pre.transactions[i].is_reverted
  /\ Len(transactions) > Len(pre.transactions)

\* C19: every Transaction has a weekday if and only if it is a SESSION.
C19_WeekdayIffSession ==
  \A i \in 1..Len(transactions) :
    (transactions[i].weekday # NoWeekday)
      <=> (transactions[i].transaction_type = "SESSION")

\* C20: after a pay-in post through add_transaction_htmx,
\* get_payin_payout_balance is the sum of the player's pay-in / pay-out
\* rows of the current week and equals the payin_total of the response.
C20_PayinBalanceAgrees ==
  PostedBy({"add_transaction_htmx"}) =>
    LET p == Posted.player
        b == get_payin_payout_balance(DB, p, last.now)
    IN /\ ~b.raised
       /\ b.total = PlayerWeekTypeSum(DB, p, Posted.week, PayTypes)
       /\ b.total = payin_total(DB, p, Posted.week)

\* The tables with the value of every pay-in / pay-out row taken as zero.
WithoutPay(db) ==
  [db EXCEPT !.transactions =
     [i \in 1..Len(db.transactions) |->
        IF db.transactions[i].transaction_type \in PayTypes
        THEN [db.transactions[i] EXCEPT !.value = 0]
        ELSE db.transactions[i]]]

\* C21: a pay-in / pay-out value v posted during a week (through
\* add_transaction or add_transaction_htmx) is added to the player's
\* total_score at post time, and the settlement adds nothing of it a
\* second time: what start_new_week adds to every total_score is what it
\* would add with all pay-in / pay-out values zero.
C21_PayinCountedOnce ==
  /\ (/\ PostedBy({"add_transaction", "add_transaction_htmx"})
      /\ Posted.transaction_type \in PayTypes) =>
       \A p \in PlayerIds :
         ScoreDelta(p) = IF p = Posted.player THEN Posted.value ELSE 0
  /\ last.op = "new_week" =>
       LET r0 == start_new_week(WithoutPay(pre), last.now)
       IN \A p \in PlayerIds :
            ScoreDelta(p) = r0.db.players[p].total_score
                              - pre.players[p].total_score

PoolRows ==
  SelectSeq(transactions, LAMBDA t : t.transaction_type = "POOL_ADDITION")

\* C22: in every reachable state Pool.balance is the sum of the values of
\* the POOL_ADDITION rows of the ledger.
C22_PoolMatchesLedger ==
  pool.balance = SumValues(PoolRows)

C22_Witness ==
  /\ Settled
  /\ pool.exists
  /\ ~pre.pool.exists
  /\ \E i \in AppendedIds : transactions[i].transaction_type = "CASHBACK"

\* The value of row id plus the values of the rows that reverse it, reverse
\* its reversal, and so on.
RECURSIVE ChainSum(_)
ChainSum(id) ==
  transactions[id].value
    + (IF ReversalsOf(id) = {} THEN 0
       ELSE ChainSum(CHOOSE j \in ReversalsOf(id) : TRUE))

\* C23: for every transaction marked reverted, its value and the values of
\* all its direct and transitive reversals sum to zero.
C23_RevertedNetsToZero ==
  \A id \in 1..Len(transactions) :
    transactions[id].is_reverted => ChainSum(id) = 0

\* C15: callers of get_current_week that found no Week at all never fail,
\* and once they have all returned there is one Week row, which each of
\* them returned.
C15_ConcurrentFirstWeek ==
  LET first == {p \in Procs : /\ procs[p].cmd = "get_current_week"
                              /\ procs[p].looked
                              /\ procs[p].seen = 0}
  IN /\ \A p \in first : procs[p].pc # "failed"
     /\ (first = Procs /\ \A p \in Procs : procs[p].pc = "done")
        => /\ Len(weeks) = 1
           /\ \A p \in Procs : procs[p].current_week = 1

\* C16: no request ever finds "no Week is current" because a concurrent
\* start_new_week has closed the week and not yet created the next one.
C16_SettlementAllOrNothing ==
  \A p \in Procs :
    ~(procs[p].looked /\ ~procs[p].found /\ procs[p].mid)

====
